---- MODULE Spec2Model ----
(***************************************************************************)
(* Model of the ParcelAm multi-tenant RAG service (src/rag_service.py) and *)
(* of the assistant query endpoint (src/server.py).                        *)
(*                                                                         *)
(* The Pinecone index is modelled as a namespace-partitioned store: one    *)
(* set of records per namespace, keyed by "_id".  Every adapter call may   *)
(* fail (raise).  index_bulk_documents is the only operation that makes    *)
(* more than one adapter call, so it is the only one modelled in several   *)
(* steps; the other operations are atomic around their single call.  An    *)
(* adapter call that raises leaves the store as it was.                    *)
(*                                                                         *)
(* Python dicts are functions from keys (strings) to values; strings are   *)
(* TLA+ strings; relevance scores are integers in per-mille (950 = 0.95).  *)
(***************************************************************************)
EXTENDS Integers, Sequences, FiniteSets, TLC

VARIABLES
    store,        \* the index: namespace -> set of [rec, owner] entries
    bulk,         \* the index_bulk_documents call in flight (or finished)
    last,         \* the most recent atomic call: arguments, adapter call, result
    erasedIdle,   \* tenant -> erase succeeded and no index call started since
    erasedClean   \* tenant -> erase succeeded and no upsert performed since

vars == <<store, bulk, last, erasedIdle, erasedClean>>

-----------------------------------------------------------------------------
(* Bounds of the model *)

MaxDocs == 2
MaxTopK == 2
MaxIngestDocs == 4
MaxBatch == 3
MaxSynthSources == 4

-----------------------------------------------------------------------------
(* Helpers *)

Min(a, b) == IF a < b THEN a ELSE b

EmptyDict == <<>>

\* {**base, **over}: the later mapping wins on a shared key
Merge(base, over) ==
    [k \in DOMAIN base \cup DOMAIN over |->
        IF k \in DOMAIN over THEN over[k] ELSE base[k]]

Without(d, keys) == [k \in DOMAIN d \ keys |-> d[k]]

\* dict.get(key, default)
Get(d, key, default) == IF key \in DOMAIN d THEN d[key] ELSE default

SeqsUpTo(S, n) == UNION {[1..m -> S] : m \in 0..n}

Take(s, n) == SubSeq(s, 1, Min(n, Len(s)))

RECURSIVE Rep(_, _)
Rep(s, n) == IF n = 0 THEN "" ELSE s \o Rep(s, n - 1)

-----------------------------------------------------------------------------
(* Input universes *)

Tenants == {"tA", "tB"}

\* the concurrent specification: every operation, two tenants, small documents
DocIds == {"d1"}
Contents == {"c1"}
Metas == {EmptyDict}
BulkDocs == { [_id |-> "d2", content |-> "c2", title |-> "T"] }
BatchSizes == 1..2

\* the ingestion specifications: empty and missing fields, metadata that names
\* the reserved keys, duplicate ids
IngestIds == {"d1", "d2", ""}
IngestContents == {"c1", "c2", ""}
IngestMetas ==
    { EmptyDict, [title |-> "T"], [_id |-> "d2"], [content |-> "c1"] }
IngestDocs ==
    { [_id |-> "d1", content |-> "c1"],
      [_id |-> "d1", content |-> "c2"],
      [_id |-> "d2", content |-> "c2", title |-> "T"],
      [content |-> "c1"] }

\* the query specification: one tenant, up to three documents, filters
QueryIds == {"d1", "d2", "d3"}
QueryMetas == {EmptyDict, [title |-> "T", category |-> "x"]}
Filters == {EmptyDict, [title |-> "T"]}
Questions == {"where is my parcel"}

-----------------------------------------------------------------------------
(* Configuration *)

RERANK_MODEL == "bge-reranker-v2-m3"

-----------------------------------------------------------------------------
(* MultiTenantRAG: namespace and record construction *)

\* a bug: one namespace for every tenant
NamespaceShared(tenant_id) == "tA"

\* namespace = tenant_id
Namespace(tenant_id) == tenant_id

\* index_document's record literal: {"_id": doc_id, "content": content, **(metadata or {})}
IndexRecord(doc_id, content, metadata) ==
    Merge([_id |-> doc_id, content |-> content], metadata)

\* doc["_id"] and doc["content"] raise KeyError on a document without the key
HasKeys(doc) == {"_id", "content"} \subseteq DOMAIN doc

\* index_bulk_documents' record literal
BulkRecord(doc) ==
    Merge([_id |-> doc["_id"], content |-> doc["content"]],
          Without(doc, {"_id", "content"}))

\* the records list built before the batch loop
BulkRecords(documents) == [n \in 1..Len(documents) |-> BulkRecord(documents[n])]

\* a bug: a slice that takes one record too many
BatchClosedSlice(records, i, batch_size) ==
    SubSeq(records, i + 1, IF i + batch_size + 1 < Len(records)
                           THEN i + batch_size + 1 ELSE Len(records))

\* batch = records[i:i + batch_size]   (i is 0-based)
Batch(records, i, batch_size) ==
    SubSeq(records, i + 1, Min(i + batch_size, Len(records)))

\* range(0, len(records), batch_size): the next value of i
NextIndex(i, batch_size) == i + batch_size

-----------------------------------------------------------------------------
(* The index adapter: a namespace-partitioned store *)

\* upsert of one record: replaces the entry with the same "_id"
UpsertOne(entries, rec, owner) ==
    {e \in entries : e.rec["_id"] # rec["_id"]} \cup {[rec |-> rec, owner |-> owner]}

RECURSIVE UpsertAll(_, _, _)
UpsertAll(entries, records, owner) ==
    IF records = <<>> THEN entries
    ELSE UpsertAll(UpsertOne(entries, Head(records), owner), Tail(records), owner)

\* index.upsert_records(namespace=namespace, records=records)
UpsertRecords(st, namespace, records, owner) ==
    [st EXCEPT ![namespace] = UpsertAll(st[namespace], records, owner)]

\* a bug: a delete that removes nothing
DeleteNothing(st, namespace) == st

\* index.delete(delete_all=True, namespace=tenant_id)
DeleteAll(st, namespace) == [st EXCEPT ![namespace] = {}]

\* a record passes a metadata filter when it carries every filtered field
Matches(rec, filter) ==
    \A k \in DOMAIN filter : k \in DOMAIN rec /\ rec[k] = filter[k]

\* the adapter's relevance scores, by rank (per-mille)
Score(profile, rank) == IF profile = "graded" THEN 1000 - 125 * rank ELSE 500

\* a search hit: {"_id", "_score", "fields"}; owner is the tenant whose call
\* stored the record (not visible to the service)
Hit(entry, score) ==
    [ _id |-> entry.rec["_id"], _score |-> score,
      fields |-> Without(entry.rec, {"_id"}), owner |-> entry.owner ]

\* a hit that is no mapping (hit.get raises)
BadHit == [bad |-> TRUE]

Injective(f) == \A a, b \in DOMAIN f : f[a] = f[b] => a = b

\* the ranked candidate lists a search of the namespace can produce: distinct
\* records of that namespace passing the filter, at most query.top_k of them
RankedEntries(st, request, extra) ==
    LET pool == {e \in st[request.namespace] : Matches(e.rec, request.query.filter)}
                \cup extra
    IN  {s \in SeqsUpTo(pool, Min(request.query.top_k, Cardinality(pool))) : Injective(s)}

HitList(entries, profile) ==
    [r \in 1..Len(entries) |->
        IF entries[r] = BadHit THEN BadHit ELSE Hit(entries[r], Score(profile, r))]

\* index.search(...) replies: a raise, a reply without "result", or ranked hits
Raised == [raised |-> TRUE]

Reply(results) == [raised |-> FALSE, results |-> results]

SearchReplies(st, request, profiles, extra) ==
    {Raised, Reply(EmptyDict)} \cup
    { Reply([result |-> [hits |-> HitList(s, p)]]) :
        s \in RankedEntries(st, request, extra), p \in profiles }

-----------------------------------------------------------------------------
(* Initial state *)

IdleBulk ==
    [ pc |-> "idle", tenant_id |-> "", namespace |-> "", documents |-> <<>>,
      records |-> <<>>, batch_size |-> 0, i |-> 0, success_count |-> 0,
      calls |-> <<>>, failed |-> FALSE, result |-> 0 ]

Init ==
    /\ store = [ns \in Tenants |-> {}]
    /\ bulk = IdleBulk
    /\ last = [op |-> "none"]
    /\ erasedIdle = [t \in Tenants |-> FALSE]
    /\ erasedClean = [t \in Tenants |-> FALSE]

-----------------------------------------------------------------------------
(* index_document *)

\* upsertOk: whether the adapter's upsert succeeds
IndexDocument(tenant_id, doc_id, content, metadata, upsertOk) ==
    LET namespace == Namespace(tenant_id)
        record == IndexRecord(doc_id, content, metadata)
    IN  /\ store' = IF upsertOk
                    THEN UpsertRecords(store, namespace, <<record>>, tenant_id)
                    ELSE store
        /\ last' = [ op |-> "index_document", tenant_id |-> tenant_id,
                     doc_id |-> doc_id, content |-> content,
                     metadata |-> metadata, namespace |-> namespace,
                     records |-> <<record>>, result |-> upsertOk ]
        /\ erasedIdle' = [erasedIdle EXCEPT ![tenant_id] = FALSE]
        /\ erasedClean' = [erasedClean EXCEPT ![tenant_id] = @ /\ ~upsertOk]
        /\ UNCHANGED bulk

-----------------------------------------------------------------------------
(* index_bulk_documents *)

\* the call up to its first adapter call: building the records list raises on
\* a document without "_id" or "content", range() raises on a step of 0, and
\* an empty range returns at once
IndexBulkStart(tenant_id, documents, batch_size) ==
    /\ bulk.pc = "idle"
    /\ LET ok == (\A n \in 1..Len(documents) : HasKeys(documents[n]))
                 /\ batch_size # 0
           records == IF ok THEN BulkRecords(documents) ELSE <<>>
           looping == ok /\ batch_size > 0 /\ Len(records) > 0
       IN  bulk' = [ pc |-> IF looping THEN "loop" ELSE "done",
                     tenant_id |-> tenant_id,
                     namespace |-> Namespace(tenant_id),
                     documents |-> documents,
                     records |-> records,
                     batch_size |-> batch_size,
                     i |-> 0, success_count |-> 0, calls |-> <<>>,
                     failed |-> ~ok, result |-> 0 ]
    /\ erasedIdle' = [erasedIdle EXCEPT ![tenant_id] = FALSE]
    /\ UNCHANGED <<store, last, erasedClean>>

\* what the except clause returns
BulkOnError(success_count) == 0

\* one iteration of the batch loop; the iteration that ends the range returns
IndexBulkUpsert(upsertOk) ==
    /\ bulk.pc = "loop"
    /\ LET batch == Batch(bulk.records, bulk.i, bulk.batch_size)
           i2 == NextIndex(bulk.i, bulk.batch_size)
           count == bulk.success_count + Len(batch)
       IN  IF upsertOk
           THEN /\ store' = UpsertRecords(store, bulk.namespace, batch, bulk.tenant_id)
                /\ bulk' = [bulk EXCEPT
                              !.calls = Append(@, batch),
                              !.i = i2,
                              !.success_count = count,
                              !.pc = IF i2 < Len(bulk.records) THEN "loop" ELSE "done",
                              !.result = IF i2 < Len(bulk.records) THEN 0 ELSE count]
                /\ erasedClean' = [erasedClean EXCEPT ![bulk.tenant_id] = FALSE]
           ELSE /\ store' = store
                /\ bulk' = [bulk EXCEPT
                              !.calls = Append(@, batch),
                              !.failed = TRUE,
                              !.pc = "done",
                              !.result = BulkOnError(bulk.success_count)]
                /\ erasedClean' = erasedClean
    /\ UNCHANGED <<last, erasedIdle>>

\* the caller has the return value; the call's frame is gone
IndexBulkReturn ==
    /\ bulk.pc = "done"
    /\ bulk' = IdleBulk
    /\ UNCHANGED <<store, last, erasedIdle, erasedClean>>

-----------------------------------------------------------------------------
(* _build_context_answer *)

NoAnswer == "I couldn't find relevant information to answer your question."

AnswerIntro == "Based on the documentation:\n\n"

\* sources[:3]
AnswerSources == 3

\* content[:300]
ContentChars == 300

\* f"{score:.1%}" of a per-mille score
Percent(score) == ToString(score \div 10) \o "." \o ToString(score % 10) \o "%"

\* the two lines appended for the i-th source
AnswerEntry(i, source) ==
    ToString(i) \o ". " \o Get(source, "title", "Document")
        \o " (Relevance: " \o Percent(Get(source, "score", 0)) \o ")\n"
        \o Take(Get(source, "content", ""), ContentChars) \o "...\n\n"

RECURSIVE AnswerEntries(_, _)
AnswerEntries(sources, i) ==
    IF i > Len(sources) THEN ""
    ELSE AnswerEntry(i, sources[i]) \o AnswerEntries(sources, i + 1)

\* a bug: every source, not the first three
BuildContextAnswerAll(sources) ==
    IF sources = <<>> THEN NoAnswer
    ELSE AnswerIntro \o AnswerEntries(sources, 1)

BuildContextAnswer(sources) ==
    IF sources = <<>> THEN NoAnswer
    ELSE AnswerIntro \o AnswerEntries(Take(sources, AnswerSources), 1)

-----------------------------------------------------------------------------
(* query *)

\* top_k * 2
OverFetch == 2

\* a bug: no over-fetch
SearchRequestNoOverFetch(namespace, question, filter, top_k) ==
    [ namespace |-> namespace,
      query |-> [ inputs |-> [text |-> question],
                  top_k |-> top_k,
                  filter |-> filter ],
      rerank |-> [ model |-> "bge-reranker-v2-m3", top_n |-> top_k,
                   rank_fields |-> <<"content">> ] ]

\* the arguments of index.search
SearchRequest(namespace, question, filter, top_k) ==
    [ namespace |-> namespace,
      query |-> [ inputs |-> [text |-> question],
                  top_k |-> top_k * OverFetch,
                  filter |-> filter ],
      rerank |-> [ model |-> RERANK_MODEL, top_n |-> top_k,
                   rank_fields |-> <<"content">> ] ]

\* results.get("result", {}).get("hits", [])
HitsOf(results) == Get(Get(results, "result", EmptyDict), "hits", <<>>)

\* hits[:top_k]
TopHits(hits, top_k) == Take(hits, top_k)

\* the dict appended to sources for one hit
Source(hit) ==
    LET fields == Get(hit, "fields", EmptyDict)
    IN  [ id |-> hit["_id"],
          title |-> Get(fields, "title", "Untitled"),
          content |-> Get(fields, "content", ""),
          score |-> Get(hit, "_score", 0),
          metadata |-> Without(fields, {"content", "title"}) ]

Sources(hits) == [n \in 1..Len(hits) |-> Source(hits[n])]

RAGResult(answer, sources, tenant_id) ==
    [answer |-> answer, sources |-> sources, tenant_id |-> tenant_id]

\* a bug: the fallback sentence instead of the empty answer
QueryOnErrorFallback(tenant_id) ==
    [ answer |-> "I couldn't find relevant information to answer your question.",
      sources |-> <<>>, tenant_id |-> tenant_id ]

\* what the except clause returns
QueryOnError(tenant_id) == RAGResult("", <<>>, tenant_id)

\* reply: what index.search does (see SearchReplies)
Query(tenant_id, question, filter, top_k, reply) ==
    LET namespace == Namespace(tenant_id)
        request == SearchRequest(namespace, question, filter, top_k)
        hits == IF reply.raised THEN <<>> ELSE HitsOf(reply.results)
        top == TopHits(hits, top_k)
        threw == reply.raised \/ \E n \in 1..Len(top) : top[n] = BadHit
        sources == IF threw THEN <<>> ELSE Sources(top)
    IN  /\ last' = [ op |-> "query", tenant_id |-> tenant_id, top_k |-> top_k,
                     filter |-> filter, searches |-> <<request>>,
                     reply |-> reply, threw |-> threw,
                     result |-> IF threw THEN QueryOnError(tenant_id)
                                ELSE RAGResult(BuildContextAnswer(sources),
                                               sources, tenant_id) ]
        /\ UNCHANGED <<store, bulk, erasedIdle, erasedClean>>

-----------------------------------------------------------------------------
(* delete_tenant_data *)

DeleteTenantData(tenant_id, deleteOk) ==
    /\ store' = IF deleteOk THEN DeleteAll(store, tenant_id) ELSE store
    /\ last' = [ op |-> "delete_tenant_data", tenant_id |-> tenant_id,
                 namespace |-> tenant_id, result |-> deleteOk ]
    /\ erasedIdle' = [erasedIdle EXCEPT ![tenant_id] = deleteOk]
    /\ erasedClean' = [erasedClean EXCEPT ![tenant_id] = deleteOk]
    /\ UNCHANGED bulk

-----------------------------------------------------------------------------
(* server.py: POST /query *)

\* what assistant.chat can do: raise, or answer with citations drawn from the
\* assistant's own files (the assistant takes no namespace and no tenant)
ChatReplies ==
    { [raised |-> TRUE],
      [raised |-> FALSE, content |-> "answer", citations |-> <<>>],
      [raised |-> FALSE, content |-> "answer",
       citations |-> << [position |-> 7,
                         references |-> << [pages |-> <<1>>] >>] >>] }

Citation(citation, ref) ==
    [ file_name |-> Get(ref, "file.name", "Unknown"),
      file_id |-> Get(ref, "file.id", ""),
      pages |-> Get(ref, "pages", <<>>),
      position |-> Get(citation, "position", 0),
      metadata |-> Get(ref, "metadata", EmptyDict) ]

RECURSIVE Citations(_)
Citations(cs) ==
    IF cs = <<>> THEN <<>>
    ELSE LET refs == Get(Head(cs), "references", <<>>)
         IN  [n \in 1..Len(refs) |-> Citation(Head(cs), refs[n])] \o Citations(Tail(cs))

QueryAssistant(tenant_id, question, chat) ==
    /\ last' = IF chat.raised
               THEN [ op |-> "query_assistant", tenant_id |-> tenant_id,
                      status |-> 500 ]
               ELSE [ op |-> "query_assistant", tenant_id |-> tenant_id,
                      status |-> 200,
                      result |-> [ answer |-> chat.content,
                                   citations |-> Citations(chat.citations),
                                   tenant_id |-> tenant_id ] ]
    /\ UNCHANGED <<store, bulk, erasedIdle, erasedClean>>

-----------------------------------------------------------------------------
(* The concurrent specification: every operation, calls of any tenant          *)
(* interleaved with the batches of an index_bulk_documents call in flight      *)

Next ==
    \/ \E t \in Tenants, id \in DocIds, c \in Contents, m \in Metas, ok \in BOOLEAN :
          IndexDocument(t, id, c, m, ok)
    \/ \E t \in Tenants, docs \in SeqsUpTo(BulkDocs, MaxDocs), b \in BatchSizes :
          IndexBulkStart(t, docs, b)
    \/ \E ok \in BOOLEAN : IndexBulkUpsert(ok)
    \/ IndexBulkReturn
    \/ \E t \in Tenants, q \in Questions :
          \E r \in SearchReplies(store, SearchRequest(Namespace(t), q, EmptyDict, 1),
                                 {"graded"}, {}) :
              Query(t, q, EmptyDict, 1, r)
    \/ \E t \in Tenants, ok \in BOOLEAN : DeleteTenantData(t, ok)
    \/ \E t \in Tenants, q \in Questions, chat \in ChatReplies : QueryAssistant(t, q, chat)

Spec == Init /\ [][Next]_vars

-----------------------------------------------------------------------------
(* The ingestion specifications: one tenant, documents with empty or missing  *)
(* fields, metadata naming the reserved keys, repeated ids                     *)

NextIndex1 ==
    \E id \in IngestIds, c \in IngestContents, m \in IngestMetas, ok \in BOOLEAN :
        IndexDocument("tA", id, c, m, ok)

SpecIndex == Init /\ [][NextIndex1]_vars

NextBulk ==
    \/ \E docs \in SeqsUpTo(IngestDocs, MaxIngestDocs), b \in (-1)..MaxBatch :
          IndexBulkStart("tA", docs, b)
    \/ \E ok \in BOOLEAN : IndexBulkUpsert(ok)
    \/ IndexBulkReturn

SpecBulk == Init /\ [][NextBulk]_vars

-----------------------------------------------------------------------------
(* The query specification: one tenant, up to three documents, metadata       *)
(* filters, replies that rank any records of the namespace, malformed hits     *)

NextQuery ==
    \/ \E id \in QueryIds, m \in QueryMetas, ok \in BOOLEAN :
          IndexDocument("tA", id, "c1", m, ok)
    \/ \E q \in Questions, f \in Filters, k \in 1..MaxTopK :
          \E r \in SearchReplies(store, SearchRequest(Namespace("tA"), q, f, k),
                                 {"graded", "tied"}, {BadHit}) :
              Query("tA", q, f, k, r)

SpecQuery == Init /\ [][NextQuery]_vars

-----------------------------------------------------------------------------
(* The synthesis specification: _build_context_answer on source lists with    *)
(* contents shorter than, equal to and longer than the 300 characters shown    *)

Chars299 == Rep("x", 299)

SynthSources ==
    { [id |-> "d1", title |-> "A", content |-> "abc", score |-> 950,
       metadata |-> EmptyDict],
      [id |-> "d2", title |-> "B", content |-> Chars299 \o "y", score |-> 500,
       metadata |-> EmptyDict],
      [id |-> "d3", title |-> "C", content |-> Chars299 \o "yz", score |-> 125,
       metadata |-> EmptyDict],
      [id |-> "d3", title |-> "C", content |-> Chars299 \o "yw", score |-> 125,
       metadata |-> EmptyDict],
      [content |-> ""] }

\* a caller holding a source list, before and after the call
InitSynth ==
    /\ store = [ns \in Tenants |-> {}]
    /\ bulk = IdleBulk
    /\ last \in { [op |-> "sources", sources |-> s] :
                    s \in SeqsUpTo(SynthSources, MaxSynthSources) }
    /\ erasedIdle = [t \in Tenants |-> FALSE]
    /\ erasedClean = [t \in Tenants |-> FALSE]

BuildContextAnswerCall ==
    /\ last.op = "sources"
    /\ last' = [ op |-> "_build_context_answer", sources |-> last.sources,
                 answer |-> BuildContextAnswer(last.sources) ]
    /\ UNCHANGED <<store, bulk, erasedIdle, erasedClean>>

NextSynth == BuildContextAnswerCall

SpecSynth == InitSynth /\ [][NextSynth]_vars

-----------------------------------------------------------------------------
(* Claims *)

RECURSIVE Concat(_)
Concat(ss) == IF ss = <<>> THEN <<>> ELSE Head(ss) \o Concat(Tail(ss))

CeilDiv(n, d) == (n + d - 1) \div d

Front(s) == SubSeq(s, 1, Len(s) - 1)

\* C1: when the upsert of batch j > 1 fails, index_bulk_documents returns the
\* number of records of batches 1..j-1 and makes no further upsert call.
C1_PartialFailureCount ==
    (bulk.pc = "done" /\ bulk.failed /\ Len(bulk.calls) > 1)
        => bulk.result = Len(Concat(Front(bulk.calls)))

\* C2: the record handed to upsert has "_id" equal to the document's id and
\* "content" equal to the document's content, whatever the caller's metadata.
C2_ReservedKeysWin ==
    /\ last.op = "index_document"
          => \A n \in 1..Len(last.records) :
                /\ last.records[n]["_id"] = last.doc_id
                /\ last.records[n]["content"] = last.content
    /\ \A j \in 1..Len(bulk.calls) : \A n \in 1..Len(bulk.calls[j]) :
          LET doc == bulk.documents[(j - 1) * bulk.batch_size + n]
          IN  /\ bulk.calls[j][n]["_id"] = doc["_id"]
              /\ bulk.calls[j][n]["content"] = doc["content"]

\* C5: no upsert call carries a record whose "_id" or "content" is absent or
\* empty.
C5_NoEmptyRecordUpserted ==
    LET Valid(rec) == /\ {"_id", "content"} \subseteq DOMAIN rec
                      /\ rec["_id"] # ""
                      /\ rec["content"] # ""
    IN  /\ last.op = "index_document"
              => \A n \in 1..Len(last.records) : Valid(last.records[n])
        /\ \A j \in 1..Len(bulk.calls) : \A n \in 1..Len(bulk.calls[j]) :
              Valid(bulk.calls[j][n])

\* C8: indexing a document whose id is already in the tenant's namespace with
\* a different content leaves exactly one record with that id, holding the
\* content of the later document.
C8_LastWriteWins ==
    [][ \A id \in IngestIds \ {""}, c \in IngestContents \ {""}, m \in IngestMetas :
          ( /\ IndexDocument("tA", id, c, m, TRUE)
            /\ \E e \in store["tA"] : e.rec["_id"] = id /\ e.rec["content"] # c )
          => LET same == {e \in store'["tA"] : e.rec["_id"] = id}
             IN  /\ Cardinality(same) = 1
                 /\ \A e \in same : e.rec["content"] = c ]_vars

\* C3: every adapter call made for tenant T names namespace T, every record
\* of a namespace was stored by a call of that namespace's tenant, and the
\* sources a query for T returns come from records indexed under T.
C3_NamespaceIsolation ==
    /\ \A ns \in Tenants : \A e \in store[ns] : e.owner = ns
    /\ bulk.pc # "idle" => bulk.namespace = bulk.tenant_id
    /\ last.op \in {"index_document", "delete_tenant_data"}
          => last.namespace = last.tenant_id
    /\ last.op = "query"
          => /\ \A n \in 1..Len(last.searches) :
                   last.searches[n].namespace = last.tenant_id
             /\ \A n \in 1..Len(last.result.sources) :
                   /\ HitsOf(last.reply.results)[n].owner = last.tenant_id
                   /\ HitsOf(last.reply.results)[n]["_id"] = last.result.sources[n].id

\* a query for tB returns a source while tA holds records of its own
C3_Witness ==
    /\ last.op = "query"
    /\ last.tenant_id = "tB"
    /\ Len(last.result.sources) > 0
    /\ store["tA"] # {}

\* C4: with well-formed documents, batch_size B >= 1 and no failing upsert,
\* index_bulk_documents makes ceil(N/B) upsert calls in document order, each
\* of at most B records and all but the last of exactly B, the batches
\* concatenate to the document sequence, and the call returns N.
C4_BatchPartitioning ==
    LET N == Len(bulk.documents)
        B == bulk.batch_size
        calls == bulk.calls
    IN  ( /\ bulk.pc \in {"loop", "done"}
          /\ ~bulk.failed
          /\ B >= 1
          /\ \A n \in 1..N : HasKeys(bulk.documents[n]) )
        => /\ \A j \in 1..Len(calls) :
                 /\ Len(calls[j]) <= B
                 /\ Len(calls[j]) >= 1
                 /\ j < Len(calls) => Len(calls[j]) = B
           /\ bulk.pc = "loop"
                 => /\ Len(Concat(calls)) < N
                    /\ Concat(calls) = SubSeq(bulk.documents, 1, Len(Concat(calls)))
                    /\ \A j \in 1..Len(calls) : Len(calls[j]) = B
           /\ bulk.pc = "done"
                 => /\ Len(calls) = CeilDiv(N, B)
                    /\ Concat(calls) = bulk.documents
                    /\ bulk.result = N

\* four documents in batches of three: two calls, the last one smaller
C4_Witness ==
    /\ bulk.pc = "done"
    /\ ~bulk.failed
    /\ Len(bulk.documents) = 4
    /\ bulk.batch_size = 3
    /\ Len(bulk.calls) = 2
    /\ Len(bulk.calls[2]) = 1
    /\ bulk.result = 4

\* C6 as stated: once delete_tenant_data(T) has returned true and no index
\* call for T has started since, a query for T returns no sources, also while
\* an index_bulk_documents call for T started before the erase is in flight.
C6_ErasureTotalityAnyInterleaving ==
    (last.op = "query" /\ erasedIdle[last.tenant_id])
        => last.result.sources = <<>>

\* C6 as amended: once delete_tenant_data(T) has returned true, the namespace
\* is empty and every query for T returns no sources until the next upsert
\* into T's namespace.
C6_ErasureUntilNextUpsert ==
    /\ \A t \in Tenants : erasedClean[t] => store[t] = {}
    /\ (last.op = "query" /\ erasedClean[last.tenant_id])
          => last.result.sources = <<>>

\* a query after an erase that removed the first batch of a bulk call which
\* is still in flight
C6_Witness ==
    /\ last.op = "query"
    /\ ~last.reply.raised
    /\ erasedClean[last.tenant_id]
    /\ bulk.pc = "loop"
    /\ bulk.tenant_id = last.tenant_id
    /\ bulk.success_count > 0

\* C7: a query whose search raises, or whose hit reshaping raises, returns
\* answer "", no sources and the caller's tenant_id; no query changes the
\* index.
C7_QueryDegradesOnFailure ==
    [][ (last' # last /\ last'.op = "query")
          => /\ store' = store
             /\ ( \/ last'.reply.raised
                  \/ \E n \in 1..Len(TopHits(HitsOf(last'.reply.results), last'.top_k)) :
                        HitsOf(last'.reply.results)[n] = BadHit )
                   => last'.result =
                        [answer |-> "", sources |-> <<>>, tenant_id |-> last'.tenant_id] ]_vars

\* a query over a non-empty namespace whose search raised
C7_Witness ==
    /\ last.op = "query"
    /\ last.reply.raised
    /\ store[last.tenant_id] # {}
    /\ last.result.answer = ""

\* C9: a query with top_k = k makes one search asking for 2k candidates and
\* a rerank to top_n = k over "content"; when the search and the reshaping
\* succeed, the sources are at most k, in the order of the ranked hits, and
\* the answer is the synthesis of exactly these sources.
C9_OverFetchAndTruncation ==
    last.op = "query"
        => /\ Len(last.searches) = 1
           /\ last.searches[1].query.top_k = 2 * last.top_k
           /\ last.searches[1].rerank.top_n = last.top_k
           /\ last.searches[1].rerank.rank_fields = <<"content">>
           /\ Len(last.result.sources) <= last.top_k
           /\ ~last.threw
                 => LET hits == HitsOf(last.reply.results)
                        sources == last.result.sources
                    IN  /\ Len(sources) = Min(last.top_k, Len(hits))
                        /\ \A n \in 1..Len(sources) :
                              /\ sources[n].id = hits[n]["_id"]
                              /\ sources[n].score = hits[n]["_score"]
                              /\ sources[n].content = hits[n].fields.content
                        /\ last.result.answer = BuildContextAnswer(sources)

\* the search returned more ranked hits than top_k and the query kept top_k
C9_Witness ==
    /\ last.op = "query"
    /\ ~last.threw
    /\ last.top_k = 1
    /\ Len(HitsOf(last.reply.results)) = 2
    /\ Len(last.result.sources) = 1

RECURSIVE Join(_)
Join(strs) == IF strs = <<>> THEN "" ELSE Head(strs) \o Join(Tail(strs))

\* the text shown for one source: its first 300 characters, then the marker
Shown(content) ==
    (IF Len(content) <= 300 THEN content ELSE SubSeq(content, 1, 300)) \o "..."

\* C10: _build_context_answer([]) is the fixed sentence; otherwise the answer
\* is the introductory line followed by min(3, number of sources) entries
\* numbered from 1 in the given order, each showing at most the first 300
\* characters of the content and then "..."; later sources do not matter.
C10_AnswerSynthesis ==
    last.op = "_build_context_answer"
        => LET sources == last.sources
               shown == Min(3, Len(sources))
               Line(i) == ToString(i) \o ". " \o Get(sources[i], "title", "Document")
                            \o " (Relevance: " \o Percent(Get(sources[i], "score", 0))
                            \o ")\n" \o Shown(Get(sources[i], "content", "")) \o "\n\n"
               Lines == [i \in 1..shown |-> Line(i)]
           IN  /\ sources = <<>>
                     => last.answer =
                          "I couldn't find relevant information to answer your question."
               /\ sources # <<>>
                     => /\ last.answer = "Based on the documentation:\n\n" \o Join(Lines)
                        /\ last.answer = BuildContextAnswer(Take(sources, 3))

\* four sources, one of the first three longer than 300 characters
C10_Witness ==
    /\ last.op = "_build_context_answer"
    /\ Len(last.sources) = 4
    /\ \E i \in 1..3 : Len(Get(last.sources[i], "content", "")) > 300

====
